---- MODULE Spec2Model ----
(***************************************************************************)
(* A model of the reference-counted heap of kklib (kklib/include/kklib.h): *)
(* block headers, allocation and in-place reuse, the inlined fast paths of *)
(* dup/drop and the reuse-on-drop protocol.                                *)
(*                                                                         *)
(* header.refcount is a uint32_t.  The model stores a count as the value   *)
(* of its (int32_t) reading (the code itself "assumes two's complement"):  *)
(*   0x00000000..0x7FFFFFFF  are stored as  0..INT32_MAX                   *)
(*   0x80000000..0xFFFFFFFF  are stored as  INT32_MIN..-1                  *)
(* so that (int32_t)rc is the stored value, and the uint32_t operations    *)
(* the code applies (rc+1, rc-1, rc > 0) are the operators u32_inc,        *)
(* u32_dec and u32_gt below.                                               *)
(*                                                                         *)
(* A boxed value is one word: a pointer is the (8-aligned) address itself, *)
(* low bit clear; an enumeration/small integer u is 2u+1, low bit set.     *)
(***************************************************************************)
EXTENDS Integers, Sequences, FiniteSets, TLC

VARIABLES
    m,      \* the heap plus the effects of the call that produced it
    pre,    \* the heap as it was before that call
    call,   \* the last call: [op, b, n, tag, used]
    pcall,  \* the dup_block call made right before it, if one was:
            \* [op, b, rc] (rc: b's count before that dup_block)
    own,    \* own[a]: references to block a held by the calling code
    toks,   \* reuse tokens held by the calling code
    budget, \* number of calls the calling code may still make
    nallocs,\* number of constructor calls made so far
    life,   \* the block the last constructor call returned, and the numbers
            \* of dup_block and drop_block calls made on it since: [b, dups, drops]
    thr,    \* the threads of the thread-shared scenarios
    shared, \* the scenario the threads run: [kind, b, rc0]
    ctx     \* the thread-local context: [marker_unique, unique], and the
            \* values its calls have returned so far: [markers, uniques]

heapvars == <<m, pre, call, pcall, own, toks, budget, nallocs, life>>
mtvars   == <<thr, shared>>
vars     == <<m, pre, call, pcall, own, toks, budget, nallocs, life, thr, shared, ctx>>

----------------------------------------------------------------------------
(* Bounds of the model *)

NBlocks   == 3      \* addresses the allocator can hand out
MaxOps    == 3      \* calls in one run of the single-threaded machine
MaxAllocs == 1      \* constructor calls among them
MaxLife   == 6      \* calls in one run of the life of a block
MaxFields == 2      \* scanned fields of a block the calling code allocates
NThreads  == 2      \* K: threads of the thread-shared scenarios
NPairs    == 1      \* M: dup/drop pairs of each thread
MaxLen    == 2      \* length of a vector the calling code allocates
MaxCalls  == 4      \* calls on one context
MaxDrops  == 2      \* drops in one run on a graph of blocks

----------------------------------------------------------------------------
(* Program constants *)

INT32_MAX      == 2147483647
INT32_MIN      == -INT32_MAX - 1
SCAN_FSIZE_MAX == 255
RC_STICKY      == -1073741824       \* 0xC0000000 read as int32_t
RC_SHARED      == INT32_MIN         \* 0x80000000 read as int32_t
RC_STATIC      == 65280             \* 0xFF00
Unit           == 0
reuse_null     == 0
TAG_MIN        == 1
TAG_MAX        == 65000
TAG_REF        == 65003
TAG_VECTOR     == 65009
box_null       == -1                \* ~UP(0): all bits set

Addr == {8 * i : i \in 1..NBlocks}
Tags == {TAG_MIN, 500}

----------------------------------------------------------------------------
(* uint32_t arithmetic on the int32_t reading *)

u32_inc(rc) == IF rc = INT32_MAX THEN INT32_MIN ELSE rc + 1
u32_dec(rc) == IF rc = INT32_MIN THEN INT32_MAX ELSE rc - 1
\* a > b as uint32_t values
u32_gt(a, b) == IF (a >= 0) = (b >= 0) THEN a > b ELSE a < 0

----------------------------------------------------------------------------
(* Boxed values *)

box_enum(u)   == 2 * u + 1
unbox_enum(v) == (v - 1) \div 2
box_ptr(p)    == p
unbox_ptr(v)  == v
is_ptr(v)     == v % 2 = 0

----------------------------------------------------------------------------
(* Headers and blocks *)

HEADER(scan_fsize, tag) ==
    [scan_fsize |-> scan_fsize, thread_shared |-> 0, tag |-> tag, refcount |-> 0]

HEADER_STATIC(scan_fsize, tag) ==
    [scan_fsize |-> scan_fsize, thread_shared |-> 0, tag |-> tag,
     refcount |-> RC_STATIC]

block_tag(h, b) == h.hdr[b].tag

block_field(h, b, index) ==
    IF index < Len(h.fld[b]) THEN h.fld[b][index + 1] ELSE box_enum(0)

\* Mutant of block_scan_fsize: reads the inline count only.
block_scan_fsize_inline(h, b) == h.hdr[b].scan_fsize

block_scan_fsize(h, b) ==
    LET sfsize == h.hdr[b].scan_fsize
    IN  IF sfsize # SCAN_FSIZE_MAX THEN sfsize
        ELSE unbox_enum(block_field(h, b, 0))

block_refcount(h, b) == h.hdr[b].refcount

block_is_unique(h, b) == h.hdr[b].refcount = 0

IsLive(h, b) == b \in h.mal /\ h.nfree[b] = 0

\* The effects of one call start empty.
Begin(h) ==
    [h EXCEPT !.ret = reuse_null, !.drops = <<>>, !.dups = <<>>,
              !.frees = <<>>, !.mallocs = 0, !.slow = <<>>]

set_refcount(h, b, rc) == [h EXCEPT !.hdr[b].refcount = rc]

return(h, v) == [h EXCEPT !.ret = v]

----------------------------------------------------------------------------
(* Allocation *)

runtime_free(h, p) ==
    [h EXCEPT !.nfree[p] = @ + 1, !.frees = Append(@, p)]

\* malloc hands out an address that is not in use: never used, or freed.
FreeAddr(h) == {a \in Addr : ~IsLive(h, a)}

runtime_malloc(h, a) ==
    [h EXCEPT !.mal = @ \cup {a}, !.nfree[a] = 0, !.mallocs = @ + 1, !.ret = a]

\* assert_internal(scan_fsize < SCAN_FSIZE_MAX) is the caller's obligation;
\* under it the two byte-order variants write the same header.
block_init(h, b, scan_fsize, tag) ==
    [h EXCEPT !.hdr[b] = HEADER(scan_fsize % 256, tag % 65536)]

\* Mutant of block_alloc_at: allocates even when given storage to reuse.
block_alloc_at_fresh(h, at, a, scan_fsize, tag) ==
    return(block_init(runtime_malloc(h, a), a, scan_fsize, tag), a)

\* `a` is the address malloc returns when `at` is reuse_null.
block_alloc_at(h, at, a, scan_fsize, tag) ==
    LET h1 == IF at = reuse_null THEN runtime_malloc(h, a) ELSE h
        b  == IF at = reuse_null THEN a ELSE at
    IN  return(block_init(h1, b, scan_fsize, tag), b)

block_alloc(h, a, scan_fsize, tag) ==
    return(block_init(runtime_malloc(h, a), a, scan_fsize, tag), a)

block_alloc_any(h, a, scan_fsize, tag) ==
    return(block_init(runtime_malloc(h, a), a, scan_fsize, tag), a)

\* The header says "large"; the scan count goes, boxed, into the first field.
block_large_init(h, b, scan_fsize, tag) ==
    [h EXCEPT !.hdr[b] = HEADER(SCAN_FSIZE_MAX, tag % 65536),
              !.fld[b] = <<box_enum(scan_fsize)>>]

block_large_alloc(h, a, scan_fsize, tag) ==
    return(block_large_init(runtime_malloc(h, a), a, scan_fsize, tag), a)

----------------------------------------------------------------------------
(* Reference counting *)

is_sticky(rc) == u32_gt(rc, RC_STICKY)

\* Each inlined operation reads header.refcount once into `rc` and then
\* acts on that value: f(h, b) is f_rc(h, b, rc) with the count just read.
\* Another thread can write the header between the two.
RECURSIVE drop_block(_, _), drop_block_rc(_, _, _), block_check_free(_, _, _),
          block_free(_, _), drop_box_t(_, _), drop_fields(_, _, _, _)

\* Mutant of drop_fields: the loop stops after one field.
drop_fields_first(h, b, i, scan_fsize) ==
    IF i >= scan_fsize THEN h
    ELSE drop_box_t([h EXCEPT !.drops = Append(@, <<b, i>>)], block_field(h, b, i))

\* for (i = from; i < scan_fsize; i++) drop_box_t(block_field(b,i), ctx)
drop_fields(h, b, i, scan_fsize) ==
    IF i >= scan_fsize THEN h
    ELSE drop_fields(
             drop_box_t([h EXCEPT !.drops = Append(@, <<b, i>>)],
                        block_field(h, b, i)),
             b, i + 1, scan_fsize)

drop_box_t(h, v) ==
    IF is_ptr(v) THEN drop_block(h, unbox_ptr(v)) ELSE h

block_free(h, b) ==
    runtime_free(drop_fields(h, b, 0, block_scan_fsize(h, b)), b)

\* The out-of-line release: a count of zero frees the block and what it
\* owns; a sticky count is left alone; any other count with the top bit set
\* is decremented atomically and the block freed when no owner is left.
block_check_free(h, b, rc) ==
    LET h1 == [h EXCEPT !.slow = Append(@, <<"block_check_free", b, rc>>)]
    IN  IF rc = 0 THEN block_free(h1, b)
        ELSE IF is_sticky(h1.hdr[b].refcount) THEN h1
        ELSE LET new == u32_dec(h1.hdr[b].refcount)
                 h2  == set_refcount(h1, b, new)
             IN  IF new = RC_SHARED THEN block_free(h2, b) ELSE h2

dup_block_check(h, b, rc) ==
    LET h1 == [h EXCEPT !.slow = Append(@, <<"dup_block_check", b, rc>>)]
    IN  IF is_sticky(h1.hdr[b].refcount) THEN return(h1, b)
        ELSE return(set_refcount(h1, b, u32_inc(h1.hdr[b].refcount)), b)

dup_block_rc(h, b, rc) ==
    IF rc >= 0
    THEN return(set_refcount(h, b, u32_inc(rc)), b)
    ELSE dup_block_check(h, b, rc)

\* Mutant of dup_block: returns the block without counting the new owner.
dup_block_uncounted(h, b) == return(h, b)

dup_block(h, b) == dup_block_rc(h, b, h.hdr[b].refcount)

\* Mutant of drop_block: releases the block one owner early (rc > 1).
drop_block_early(h, b) ==
    LET rc == h.hdr[b].refcount
    IN  IF u32_gt(rc, 1)
        THEN set_refcount(h, b, u32_dec(rc))
        ELSE block_check_free(h, b, 0)

\* `(int32_t)(rc > 0)`: the comparison is made on the uint32_t, the cast
\* applies to its 0/1 result.
drop_block_rc(h, b, rc) ==
    IF u32_gt(rc, 0)
    THEN set_refcount(h, b, u32_dec(rc))
    ELSE block_check_free(h, b, rc)

drop_block(h, b) == drop_block_rc(h, b, h.hdr[b].refcount)

\* Mutant of block_decref: tests the sign of the count, (int32_t)rc > 0.
block_decref_signed(h, b) ==
    LET rc == h.hdr[b].refcount
    IN  IF rc > 0
        THEN set_refcount(h, b, u32_dec(rc))
        ELSE block_check_free(h, b, rc)

\* assert_internal(rc != 0) is the caller's obligation (see Decref).
block_decref(h, b) ==
    LET rc == h.hdr[b].refcount
    IN  IF u32_gt(rc, 0)
        THEN set_refcount(h, b, u32_dec(rc))
        ELSE block_check_free(h, b, rc)

\* The out-of-line release for reuse: a count of zero drops the fields and
\* returns the storage; any other count is released as by block_check_free
\* and no storage is returned.
block_check_reuse(h, b, rc0) ==
    LET h1 == [h EXCEPT !.slow = Append(@, <<"block_check_reuse", b, rc0>>)]
    IN  IF rc0 = 0
        THEN return(drop_fields(h1, b, 0, block_scan_fsize(h1, b)), b)
        ELSE return(block_check_free(h1, b, rc0), reuse_null)

\* Mutant of drop_reuse_blockx: the shared branch forgets the decrement.
drop_reuse_blockx_nodec(h, b) ==
    LET rc == h.hdr[b].refcount
    IN  IF rc <= 0
        THEN block_check_reuse(h, b, rc)
        ELSE return(h, reuse_null)

drop_reuse_blockx(h, b) ==
    LET rc == h.hdr[b].refcount
    IN  IF rc <= 0
        THEN block_check_reuse(h, b, rc)
        ELSE return(set_refcount(h, b, u32_dec(rc)), reuse_null)

\* Mutant of drop_reuse_block: the loop over the fields starts at 1.
drop_reuse_block_from1(h, b) ==
    LET rc == h.hdr[b].refcount
    IN  IF rc = 0
        THEN return(drop_fields(h, b, 1, block_scan_fsize(h, b)), b)
        ELSE return(drop_block(h, b), reuse_null)

drop_reuse_block(h, b) ==
    LET rc == h.hdr[b].refcount
    IN  IF rc = 0
        THEN return(drop_fields(h, b, 0, block_scan_fsize(h, b)), b)
        ELSE return(drop_block(h, b), reuse_null)

drop_reuse_blockn_rc(h, b, scan_fsize, rc) ==
    IF rc = 0
    THEN return(drop_fields(h, b, 0, scan_fsize), b)
    ELSE IF rc < 0
    THEN return(block_check_free(h, b, rc), reuse_null)
    ELSE return(set_refcount(h, b, u32_dec(rc)), reuse_null)

\* Mutant of drop_reuse_blockn: hands out the storage of a shared block too.
drop_reuse_blockn_shared(h, b, scan_fsize) ==
    LET rc == h.hdr[b].refcount
    IN  IF rc > 0
        THEN return(set_refcount(h, b, u32_dec(rc)), b)
        ELSE drop_reuse_blockn_rc(h, b, scan_fsize, rc)

drop_reuse_blockn(h, b, scan_fsize) ==
    drop_reuse_blockn_rc(h, b, scan_fsize, h.hdr[b].refcount)

\* Mutant of drop_blockn: frees a unique block without dropping its fields.
drop_blockn_nofields(h, b, scan_fsize) ==
    LET rc == h.hdr[b].refcount
    IN  IF rc = 0
        THEN runtime_free(h, b)
        ELSE IF rc < 0
        THEN block_check_free(h, b, rc)
        ELSE set_refcount(h, b, u32_dec(rc))

drop_blockn(h, b, scan_fsize) ==
    LET rc == h.hdr[b].refcount
    IN  IF rc = 0
        THEN runtime_free(drop_fields(h, b, 0, scan_fsize), b)
        ELSE IF rc < 0
        THEN block_check_free(h, b, rc)
        ELSE set_refcount(h, b, u32_dec(rc))

drop_reuse_t(h, r) ==
    IF r # reuse_null THEN runtime_free(h, r) ELSE h

----------------------------------------------------------------------------
(* Datatypes: a datatype_t is one word, either a pointer to a block (low   *)
(* bit clear) or a singleton (low bit set).  A bool result is 0 or 1.      *)

\* Mutant of datatype_from_tag: shifts by one bit only.
datatype_from_tag_shift1(t) == 2 * t + 1

\* (((uintptr_t)t)<<2 | 1); a tag_t fits 16 bits, so the shift loses nothing.
datatype_from_tag(t) == 4 * t + 1

datatype_from_ptr(p) == p

datatype_is_ptr(d) == d % 2 = 0

datatype_is_singleton(d) == d % 2 = 1

datatype_has_tag(h, d, t) ==
    IF datatype_is_ptr(d)
    THEN return(h, IF block_tag(h, d) = t THEN 1 ELSE 0)
    ELSE return(h, IF d = datatype_from_tag(t) THEN 1 ELSE 0)

\* Mutant of dup_datatype: never forwards to dup_block.
dup_datatype_value(h, d) == return(h, d)

dup_datatype(h, d) ==
    IF datatype_is_ptr(d) THEN return(dup_block(h, d), d) ELSE return(h, d)

drop_datatype(h, d) ==
    IF datatype_is_ptr(d) THEN drop_block(h, d) ELSE h

drop_reuse_datatype(h, d, scan_fsize) ==
    IF datatype_is_singleton(d)
    THEN return(h, reuse_null)
    ELSE drop_reuse_blockn(h, d, scan_fsize)

datatype_free(h, d) ==
    IF datatype_is_ptr(d) THEN runtime_free(h, d) ELSE h

datatype_decref(h, d) ==
    IF datatype_is_ptr(d) THEN block_decref(h, d) ELSE h

----------------------------------------------------------------------------
(* Reference counting of pattern matches *)

dup_box_t(h, v) ==
    IF is_ptr(v) THEN dup_block(h, unbox_ptr(v)) ELSE h

constructor_is_unique(h, con) == block_is_unique(h, con)

drop_constructor(h, con) == drop_block(h, con)

RECURSIVE match_dups(_, _, _, _), match_drops(_, _, _, _)

\* `dups`: the generated code duplicates each field the match arm uses.
match_dups(h, con, i, used) ==
    IF i >= block_scan_fsize(h, con) THEN h
    ELSE IF i \in used
    THEN match_dups(dup_box_t([h EXCEPT !.dups = Append(@, <<con, i>>)],
                              block_field(h, con, i)),
                    con, i + 1, used)
    ELSE match_dups(h, con, i + 1, used)

\* `drops`: the generated code drops each field the match arm does not use.
match_drops(h, con, i, used) ==
    IF i >= block_scan_fsize(h, con) THEN h
    ELSE IF i \notin used
    THEN match_drops(drop_box_t([h EXCEPT !.drops = Append(@, <<con, i>>)],
                                block_field(h, con, i)),
                     con, i + 1, used)
    ELSE match_drops(h, con, i + 1, used)

\* Mutant of drop_match: the unique branch forgets to free the constructor.
drop_match_nofree(h, con, used) ==
    IF constructor_is_unique(h, con)
    THEN match_drops(h, con, 0, used)
    ELSE return(drop_constructor(match_dups(h, con, 0, used), con), reuse_null)

drop_match(h, con, used) ==
    IF constructor_is_unique(h, con)
    THEN runtime_free(match_drops(h, con, 0, used), con)
    ELSE return(drop_constructor(match_dups(h, con, 0, used), con), reuse_null)

drop_reuse_constructor(h, v, n) == drop_reuse_blockn(h, v, n)

\* The unique branch reads `reuseid = drop_reuse_constructor(conid,ctx)`: it
\* names `conid`, which is not a parameter of the macro, and gives two
\* arguments to a macro of three (v, n, ctx).  conid is the block an
\* identifier of that name denotes where the macro is used (it may be con
\* itself), n the scan count handed over once the call has its arguments.
reuse_match(h, con, conid, n, used) ==
    IF constructor_is_unique(h, con)
    THEN drop_reuse_constructor(match_drops(h, con, 0, used), conid, n)
    ELSE return(drop_constructor(match_dups(h, con, 0, used), con), reuse_null)

----------------------------------------------------------------------------
(* The thread-local context *)

\* Mutant of marker_unique: no reset at INT32_MAX.
marker_unique_noreset(c, ub) ==
    LET mk == IF c.marker_unique = INT32_MAX THEN ub ELSE c.marker_unique + 1
    IN  [ret |-> mk, ctx |-> [c EXCEPT !.marker_unique = mk]]

\* Mutant of marker_unique: the reset stores 0.
marker_unique_reset0(c, ub) ==
    LET mk == IF c.marker_unique = INT32_MAX THEN ub ELSE c.marker_unique + 1
    IN  [ret |-> mk,
         ctx |-> [c EXCEPT !.marker_unique = IF mk = INT32_MAX THEN 0 ELSE mk]]

\* int32_t m = ++ctx->marker_unique.  Incrementing INT32_MAX is a signed
\* overflow, whose result `ub` is not defined.
marker_unique(c, ub) ==
    LET mk == IF c.marker_unique = INT32_MAX THEN ub ELSE c.marker_unique + 1
    IN  [ret |-> mk,
         ctx |-> [c EXCEPT !.marker_unique = IF mk = INT32_MAX THEN 1 ELSE mk]]

\* An integer_t is a mathematical integer (small, or a big integer once it
\* no longer fits): integer_inc does not wrap.
integer_inc(u) == u + 1

dup_integer_t(u) == u

\* Mutant of gen_unique: returns the advanced counter.
gen_unique_next(c) ==
    [ret |-> integer_inc(dup_integer_t(c.unique)),
     ctx |-> [c EXCEPT !.unique = integer_inc(dup_integer_t(c.unique))]]

gen_unique(c) ==
    [ret |-> c.unique,
     ctx |-> [c EXCEPT !.unique = integer_inc(dup_integer_t(c.unique))]]

----------------------------------------------------------------------------
(* Vectors *)

\* The shared empty vector (`extern vector_t vector_empty`): a block that
\* is never allocated or freed by the calling code.
vector_empty == 24

drop_vector_t(h, v) == drop_block(h, v)

dup_vector_t(h, v) == dup_block(h, v)

\* Mutant of vector_alloc: allocates for a length of 0 as well.
vector_alloc_fresh(h, a, length, def, junk) ==
    LET h1 == block_large_alloc(h, a, length + 1, TAG_VECTOR)
    IN  [h1 EXCEPT !.fld[a] = @ \o [i \in 1..length |-> def]]

\* `a` is the address malloc returns.  The elements are written only when
\* def is not box_null; otherwise they keep `junk`, what the allocated
\* memory happened to hold.
vector_alloc(h, a, length, def, junk) ==
    IF length = 0
    THEN dup_vector_t(h, vector_empty)
    ELSE LET h1 == block_large_alloc(h, a, length + 1, TAG_VECTOR)
         IN  [h1 EXCEPT !.fld[a] =
                 @ \o [i \in 1..length |-> IF def # box_null THEN def ELSE junk]]

vector_len(h, v) == unbox_enum(block_field(h, v, 0)) - 1

----------------------------------------------------------------------------
(* References: a block of tag TAG_REF with one scanned field, the cell.     *)

\* `a` is the address malloc returns.
ref_alloc(h, a, value) ==
    LET h1 == block_alloc(h, a, 1, TAG_REF)
    IN  return([h1 EXCEPT !.fld[a] = <<value>>], a)

ref_get(h, r) ==
    LET b == block_field(h, r, 0)
    IN  return(dup_box_t(h, b), b)

\* Mutant of ref_set: overwrites the cell without dropping what it held.
ref_set_nodrop(h, r, value) ==
    return([h EXCEPT !.fld[r] = <<value>>], Unit)

\* The drop of the value read from the cell is logged as <<r, 0>>.
ref_set(h, r, value) ==
    LET b  == block_field(h, r, 0)
        h1 == drop_box_t([h EXCEPT !.drops = Append(@, <<r, 0>>)], b)
    IN  return([h1 EXCEPT !.fld[r] = <<value>>], Unit)

ref_swap(h, r, value) ==
    LET b == block_field(h, r, 0)
    IN  return([h EXCEPT !.fld[r] = <<value>>], b)

----------------------------------------------------------------------------
(* The single-threaded machine: calling code that owns references (own),   *)
(* holds reuse tokens (toks) and makes up to MaxOps calls.                 *)

EmptyHeap ==
    [hdr     |-> [a \in Addr |-> HEADER(0, 0)],
     fld     |-> [a \in Addr |-> <<>>],
     mal     |-> {},
     nfree   |-> [a \in Addr |-> 0],
     ret     |-> reuse_null,
     drops   |-> <<>>,
     dups    |-> <<>>,
     frees   |-> <<>>,
     mallocs |-> 0,
     slow    |-> <<>>]

\* Counts a block can carry when the calling code gets hold of it: unique,
\* shared, at the top of the plain range, thread-shared, at and above the
\* sticky threshold, statically defined.
InitRC ==
    { [rc |-> 0,             ts |-> 0],
      [rc |-> 1,             ts |-> 0],
      [rc |-> INT32_MAX,     ts |-> 0],
      [rc |-> RC_SHARED + 1, ts |-> 1],
      [rc |-> RC_SHARED + 2, ts |-> 1],
      [rc |-> RC_STICKY,     ts |-> 1],
      [rc |-> RC_STICKY + 1, ts |-> 0],
      [rc |-> RC_STICKY + 2, ts |-> 0],
      [rc |-> -1,            ts |-> 0],
      [rc |-> RC_STATIC,     ts |-> 0] }

Root  == 8
Child == 16

\* A constructor block Root with two scanned fields, the second (and maybe
\* the first) pointing to the block Child; the calling code owns one
\* reference to Root and c references to Child.
InitHeap(r, f0, c) ==
    [EmptyHeap EXCEPT
        !.mal = {Root, Child},
        !.hdr[Root] = [scan_fsize |-> 2, thread_shared |-> r.ts, tag |-> 500,
                       refcount |-> r.rc],
        !.fld[Root] = <<f0, box_ptr(Child)>>,
        !.hdr[Child] = [HEADER(0, TAG_MIN) EXCEPT
                           !.refcount = c + (IF f0 = box_ptr(Child) THEN 1 ELSE 0)]]

NoCall == [op |-> "none", b |-> reuse_null, n |-> 0, tag |-> 0, used |-> {}]
NoPCall == [op |-> "none", b |-> reuse_null, rc |-> 0]
NoLife == [b |-> reuse_null, dups |-> 0, drops |-> 0]

Idle == [t \in 1..NThreads |-> [pc |-> "idle", rc |-> 0, left |-> 0, got |-> reuse_null]]
NoScenario == [kind |-> "none", b |-> reuse_null, rc0 |-> 0]
\* A context as context_t starts: no marker and no unique number handed out.
NoContext == [marker_unique |-> 0, unique |-> 0, markers |-> <<>>, uniques |-> <<>>]

\* The shapes with an aliased field or a Child the caller co-owns matter
\* where Root can be released, so they are drawn for the plain counts.
InitShapes ==
    {<<r, f0, c>> \in InitRC \X {box_enum(7), box_ptr(Child)} \X (0..1) :
        r.rc \in 0..1 \/ (f0 = box_enum(7) /\ c = 0)}

Init ==
    /\ \E s \in InitShapes :
          /\ m = InitHeap(s[1], s[2], s[3])
          /\ own = [a \in Addr |-> IF a = Root THEN 1 ELSE IF a = Child THEN s[3] ELSE 0]
    /\ pre = m
    /\ call = NoCall
    /\ pcall = NoPCall
    /\ toks = {}
    /\ budget = MaxOps
    /\ nallocs = 0
    /\ life = NoLife
    /\ thr = Idle
    /\ shared = NoScenario
    /\ ctx = NoContext

\* One call `op` on block b (with arguments n, used) that leaves the heap h.
AllocOps ==
    {"block_alloc", "block_alloc_any", "block_alloc_at", "block_large_alloc", "ref_alloc"}

Called(op, b, n, tag, used, h) ==
    /\ budget > 0
    /\ budget' = budget - 1
    /\ nallocs' = IF op \in AllocOps THEN nallocs + 1 ELSE nallocs
    /\ m' = h
    /\ pre' = m
    /\ call' = [op |-> op, b |-> b, n |-> n, tag |-> tag, used |-> used]
    /\ pcall' = IF call.op = "dup_block"
                THEN [op |-> call.op, b |-> call.b, rc |-> pre.hdr[call.b].refcount]
                ELSE NoPCall
    /\ life' = IF op \in AllocOps
               THEN [b |-> h.ret, dups |-> 0, drops |-> 0]
               ELSE IF b # life.b THEN life
               ELSE IF op = "dup_block" THEN [life EXCEPT !.dups = @ + 1]
               ELSE IF op = "drop_block" THEN [life EXCEPT !.drops = @ + 1]
               ELSE NoLife
    /\ UNCHANGED <<mtvars, ctx>>

\* The calling code may use a block it holds a reference to.
Owned == {b \in Addr : own[b] >= 1 /\ IsLive(m, b)}

Dup(b) ==
    /\ b \in Owned
    /\ Called("dup_block", b, 0, 0, {}, dup_block(Begin(m), b))
    /\ own' = [own EXCEPT ![b] = @ + 1]
    /\ UNCHANGED toks

Drop(b) ==
    /\ b \in Owned
    /\ Called("drop_block", b, 0, 0, {}, drop_block(Begin(m), b))
    /\ own' = [own EXCEPT ![b] = @ - 1]
    /\ UNCHANGED toks

Decref(b) ==
    /\ b \in Owned
    /\ m.hdr[b].refcount # 0
    /\ Called("block_decref", b, 0, 0, {}, block_decref(Begin(m), b))
    /\ own' = [own EXCEPT ![b] = @ - 1]
    /\ UNCHANGED toks

DropN(b) ==
    /\ b \in Owned
    /\ LET n == block_scan_fsize(m, b)
       IN  Called("drop_blockn", b, n, 0, {}, drop_blockn(Begin(m), b, n))
    /\ own' = [own EXCEPT ![b] = @ - 1]
    /\ UNCHANGED toks

\* The reuse variants hand the calling code a token when they return one.
Reused(b, h) ==
    /\ own' = [own EXCEPT ![b] = @ - 1]
    /\ toks' = IF h.ret # reuse_null THEN toks \cup {h.ret} ELSE toks

DropReuse(b) ==
    /\ b \in Owned
    /\ LET h == drop_reuse_block(Begin(m), b)
       IN  Called("drop_reuse_block", b, 0, 0, {}, h) /\ Reused(b, h)

DropReuseN(b) ==
    /\ b \in Owned
    /\ LET n == block_scan_fsize(m, b)
           h == drop_reuse_blockn(Begin(m), b, n)
       IN  Called("drop_reuse_blockn", b, n, 0, {}, h) /\ Reused(b, h)

DropReuseX(b) ==
    /\ b \in Owned
    /\ LET h == drop_reuse_blockx(Begin(m), b)
       IN  Called("drop_reuse_blockx", b, 0, 0, {}, h) /\ Reused(b, h)

DropReuseT(r) ==
    /\ r \in toks
    /\ Called("drop_reuse_t", r, 0, 0, {}, drop_reuse_t(Begin(m), r))
    /\ toks' = toks \ {r}
    /\ UNCHANGED own

\* The values the calling code can store into the n fields of a new block:
\* small integers, and pointers to blocks it owns; each pointer stored moves
\* one of the caller's references into the block.
Pointers(fs, c) == Cardinality({i \in DOMAIN fs : fs[i] = box_ptr(c)})

FieldValues(n, b) ==
    {fs \in [1..n -> {box_enum(7)} \cup {box_ptr(c) : c \in Owned \ {b}}] :
        \A c \in Addr : Pointers(fs, c) <= own[c]}

\* A constructor call: allocate (or reinitialise the storage `at`) and store
\* the fields.
Construct(op, at, a, n, tag, fs, h) ==
    /\ nallocs < MaxAllocs
    /\ Called(op, at, n, tag, {}, [h EXCEPT !.fld[h.ret] = fs])
    /\ own' = [c \in Addr |-> IF c = h.ret THEN 1 ELSE own[c] - Pointers(fs, c)]
    /\ toks' = toks \ {at}

Alloc(a, n, tag) ==
    /\ a \in FreeAddr(m) \ toks
    /\ \E fs \in FieldValues(n, a) :
          Construct("block_alloc", reuse_null, a, n, tag, fs,
                    block_alloc(Begin(m), a, n, tag))

AllocAt(at, a, n, tag) ==
    /\ \/ at \in toks /\ a = at
       \/ at = reuse_null /\ a \in FreeAddr(m) \ toks
    /\ \E fs \in FieldValues(n, a) :
          Construct("block_alloc_at", at, a, n, tag, fs,
                    block_alloc_at(Begin(m), at, a, n, tag))

\* A match arm that uses the fields `used` of the constructor it drops; the
\* arm ends up holding the pointers in the used fields.
DropMatch(con, used) ==
    /\ con \in Owned
    /\ m.hdr[con].tag \in TAG_MIN..TAG_MAX
    /\ used \subseteq 0..(block_scan_fsize(m, con) - 1)
    /\ Called("drop_match", con, 0, 0, used, drop_match(Begin(m), con, used))
    /\ own' = [c \in Addr |->
                  (IF c = con THEN own[c] - 1 ELSE own[c])
                  + Cardinality({i \in used : block_field(m, con, i) = box_ptr(c)})]
    /\ UNCHANGED toks

ReuseMatch(con, used, conid, n) ==
    /\ con \in Owned
    /\ conid \in Owned
    /\ m.hdr[con].tag \in TAG_MIN..TAG_MAX
    /\ used \subseteq 0..(block_scan_fsize(m, con) - 1)
    /\ LET h == reuse_match(Begin(m), con, conid, n, used)
       IN  /\ Called("reuse_match", con, n, 0, used, h)
           /\ toks' = IF h.ret # reuse_null THEN toks \cup {h.ret} ELSE toks
    /\ own' = [c \in Addr |->
                  (IF c = con THEN own[c] - 1 ELSE own[c])
                  + Cardinality({i \in used : block_field(m, con, i) = box_ptr(c)})]

Next ==
    \/ \E b \in Addr : Dup(b)
    \/ \E b \in Addr : Drop(b)
    \/ \E b \in Addr : Decref(b)
    \/ \E b \in Addr : DropN(b)
    \/ \E b \in Addr : DropReuse(b)
    \/ \E b \in Addr : DropReuseN(b)
    \/ \E b \in Addr : DropReuseX(b)
    \/ \E r \in Addr : DropReuseT(r)
    \/ \E a \in Addr, n \in 0..MaxFields, tag \in Tags : Alloc(a, n, tag)
    \/ \E at \in Addr \cup {reuse_null}, a \in Addr, n \in 0..MaxFields, tag \in Tags :
          AllocAt(at, a, n, tag)
    \/ \E con \in Addr, used \in SUBSET (0..(MaxFields - 1)) : DropMatch(con, used)

Spec == Init /\ [][Next]_vars

----------------------------------------------------------------------------
(* Matches that reuse: the calling code matches on a constructor with      *)
(* reuse_match and spends the token on block_alloc_at or drop_reuse_t.     *)

NextMatch ==
    \/ \E con \in Addr, used \in SUBSET (0..(MaxFields - 1)), conid \in Addr,
          n \in 0..MaxFields : ReuseMatch(con, used, conid, n)
    \/ \E r \in Addr : DropReuseT(r)
    \/ \E at \in Addr \cup {reuse_null}, a \in Addr, n \in 0..MaxFields, tag \in Tags :
          AllocAt(at, a, n, tag)

SpecMatch == Init /\ [][NextMatch]_vars

----------------------------------------------------------------------------
(* Datatype values: the calling code holds singletons made from tags and   *)
(* pointers to the blocks it owns, and applies the datatype operations.    *)

DTags == {TAG_MIN, TAG_MIN + 1, TAG_MAX - 1, TAG_MAX}

\* Every word that can be a datatype value here.
DWords == {datatype_from_tag(t) : t \in DTags} \cup {datatype_from_ptr(b) : b \in Addr}

\* The datatype values the calling code can pass.
Datatypes ==
    {datatype_from_tag(t) : t \in DTags} \cup {datatype_from_ptr(b) : b \in Owned}

\* What the call leaves of the caller's references: a pointer's one
\* reference goes (or, for a dup, one is added), a singleton holds none.
OwnAfter(d, delta) ==
    own' = IF datatype_is_ptr(d) THEN [own EXCEPT ![d] = @ + delta] ELSE own

\* datatype_has_tag(datatype_from_tag(t), t2)
SingletonHasTag(t, t2) ==
    /\ LET d == datatype_from_tag(t)
       IN  Called("datatype_has_tag", d, t, t2, {}, datatype_has_tag(Begin(m), d, t2))
    /\ UNCHANGED <<own, toks>>

\* datatype_has_tag(datatype_from_ptr(p), t2)
PtrHasTag(p, t2) ==
    /\ p \in Owned
    /\ LET d == datatype_from_ptr(p)
       IN  Called("datatype_has_tag", d, 0, t2, {}, datatype_has_tag(Begin(m), d, t2))
    /\ UNCHANGED <<own, toks>>

DupDatatype(d) ==
    /\ d \in Datatypes
    /\ Called("dup_datatype", d, 0, 0, {}, dup_datatype(Begin(m), d))
    /\ OwnAfter(d, 1)
    /\ UNCHANGED toks

DropDatatype(d) ==
    /\ d \in Datatypes
    /\ Called("drop_datatype", d, 0, 0, {}, drop_datatype(Begin(m), d))
    /\ OwnAfter(d, -1)
    /\ UNCHANGED toks

\* block_decref asserts a non-zero count.
DatatypeDecref(d) ==
    /\ d \in Datatypes
    /\ datatype_is_ptr(d) => m.hdr[d].refcount # 0
    /\ Called("datatype_decref", d, 0, 0, {}, datatype_decref(Begin(m), d))
    /\ OwnAfter(d, -1)
    /\ UNCHANGED toks

\* The calling code frees only what it alone owns.
DatatypeFree(d) ==
    /\ d \in Datatypes
    /\ datatype_is_ptr(d) => block_is_unique(m, d)
    /\ Called("datatype_free", d, 0, 0, {}, datatype_free(Begin(m), d))
    /\ OwnAfter(d, -1)
    /\ UNCHANGED toks

DropReuseDatatype(d, n) ==
    /\ d \in Datatypes
    /\ datatype_is_ptr(d) => n = block_scan_fsize(m, d)
    /\ LET h == drop_reuse_datatype(Begin(m), d, n)
       IN  /\ Called("drop_reuse_datatype", d, n, 0, {}, h)
           /\ toks' = IF h.ret # reuse_null THEN toks \cup {h.ret} ELSE toks
    /\ OwnAfter(d, -1)

NextDatatype ==
    \/ \E t \in DTags, t2 \in DTags : SingletonHasTag(t, t2)
    \/ \E p \in Addr, t2 \in DTags \cup Tags : PtrHasTag(p, t2)
    \/ \E d \in DWords : DupDatatype(d)
    \/ \E d \in DWords : DropDatatype(d)
    \/ \E d \in DWords : DatatypeDecref(d)
    \/ \E d \in DWords : DatatypeFree(d)
    \/ \E d \in DWords, n \in 0..MaxFields : DropReuseDatatype(d, n)

SpecDatatype == Init /\ [][NextDatatype]_vars

----------------------------------------------------------------------------
(* Vectors: the calling code, holding references to the block Child,       *)
(* allocates vectors and duplicates and drops the vectors it holds.        *)

\* vector_empty is defined statically; other owners may hold it as well.
InitVector ==
    /\ \E c \in 1..2, k \in 0..1 :
          /\ m = [EmptyHeap EXCEPT
                     !.mal = {Child, vector_empty},
                     !.hdr[Child] = [HEADER(0, TAG_MIN) EXCEPT !.refcount = c - 1],
                     !.hdr[vector_empty] =
                         [HEADER_STATIC(SCAN_FSIZE_MAX, TAG_VECTOR) EXCEPT
                             !.refcount = RC_STATIC + k],
                     !.fld[vector_empty] = <<box_enum(1)>>]
          /\ own = [a \in Addr |-> IF a = Child THEN c ELSE 0]
    /\ pre = m
    /\ call = NoCall
    /\ pcall = NoPCall
    /\ toks = {}
    /\ budget = MaxOps
    /\ nallocs = 0
    /\ life = NoLife
    /\ thr = Idle
    /\ shared = NoScenario
    /\ ctx = NoContext

\* What the memory malloc returns may hold: any word, here all bits set, a
\* small integer, or a stale pointer (to the block Child).
Junk == {box_null, box_enum(0), box_ptr(Child)}

\* The caller hands over one reference with a pointer def when the vector
\* is built; vector_alloc(0, ...) does not look at def.
VectorAlloc(a, length, def, junk) ==
    /\ a \in FreeAddr(m)
    /\ junk # box_ptr(a)
    /\ def \in {box_null, box_enum(7)} \cup {box_ptr(c) : c \in Owned}
    /\ LET h == vector_alloc(Begin(m), a, length, def, junk)
       IN  /\ Called("vector_alloc", reuse_null, length, def, {}, h)
           /\ own' = [c \in Addr |->
                         IF c = h.ret THEN own[c] + 1
                         ELSE IF length > 0 /\ def = box_ptr(c) THEN own[c] - 1
                         ELSE own[c]]
    /\ UNCHANGED toks

IsVector(h, b) == IsLive(h, b) /\ block_tag(h, b) = TAG_VECTOR

DupVector(v) ==
    /\ v \in Owned /\ IsVector(m, v)
    /\ Called("dup_vector_t", v, 0, 0, {}, dup_vector_t(Begin(m), v))
    /\ own' = [own EXCEPT ![v] = @ + 1]
    /\ UNCHANGED toks

DropVector(v) ==
    /\ v \in Owned /\ IsVector(m, v)
    /\ Called("drop_vector_t", v, 0, 0, {}, drop_vector_t(Begin(m), v))
    /\ own' = [own EXCEPT ![v] = @ - 1]
    /\ UNCHANGED toks

NextVector ==
    \/ \E a \in Addr, length \in 0..MaxLen, def \in Junk \cup {box_enum(7)}, junk \in Junk :
          VectorAlloc(a, length, def, junk)
    \/ \E v \in Addr : DupVector(v)
    \/ \E v \in Addr : DropVector(v)

SpecVector == InitVector /\ [][NextVector]_vars

----------------------------------------------------------------------------
(* One context: the calling code asks for markers and unique numbers.      *)

\* The marker counter after k calls on a fresh context is k (below
\* INT32_MAX - 1): the run starts fresh, or shortly before the counter
\* reaches INT32_MAX.  The unique counter has been advanced u times.
InitContext ==
    /\ \E k \in (0..1) \cup ((INT32_MAX - MaxCalls)..(INT32_MAX - 1)), u \in {0, 5} :
          ctx = [NoContext EXCEPT !.marker_unique = k, !.unique = u]
    /\ m = EmptyHeap
    /\ pre = m
    /\ call = NoCall
    /\ pcall = NoPCall
    /\ own = [a \in Addr |-> 0]
    /\ toks = {}
    /\ budget = MaxCalls
    /\ nallocs = 0
    /\ life = NoLife
    /\ thr = Idle
    /\ shared = NoScenario

\* A call on the context: call.n is the counter the call found.
ContextCalled(op, found, r) ==
    /\ budget > 0
    /\ budget' = budget - 1
    /\ call' = [op |-> op, b |-> reuse_null, n |-> found, tag |-> 0, used |-> {}]
    /\ m' = return(Begin(m), r.ret)
    /\ pre' = m
    /\ UNCHANGED <<pcall, own, toks, nallocs, life, thr, shared>>

\* What an overflowing increment may yield.
Overflowed == {INT32_MIN, 0, INT32_MAX}

MarkerUnique(ub) ==
    /\ budget > 0
    /\ LET r == marker_unique(ctx, ub)
       IN  /\ ContextCalled("marker_unique", ctx.marker_unique, r)
           /\ ctx' = [r.ctx EXCEPT !.markers = Append(@, r.ret)]

GenUnique ==
    /\ budget > 0
    /\ LET r == gen_unique(ctx)
       IN  /\ ContextCalled("gen_unique", ctx.unique, r)
           /\ ctx' = [r.ctx EXCEPT !.uniques = Append(@, r.ret)]

NextContext ==
    \/ \E ub \in Overflowed : MarkerUnique(ub)
    \/ GenUnique

SpecContext == InitContext /\ [][NextContext]_vars

----------------------------------------------------------------------------
(* Headers: the calling code allocates blocks of every shape, small ones   *)
(* (scan count below SCAN_FSIZE_MAX, as the allocators assert) and large   *)
(* ones, and reads the header back.                                        *)

SmallCounts == {0, 1, 2, SCAN_FSIZE_MAX - 2, SCAN_FSIZE_MAX - 1}
LargeCounts == {0, 1, 2, SCAN_FSIZE_MAX - 1, SCAN_FSIZE_MAX, SCAN_FSIZE_MAX + 1, 1000}
HTags == {TAG_MIN, 500, TAG_MAX, TAG_VECTOR}

\* The new block belongs to the caller, who stores small integers in the
\* fields of a small block; a token used for it is spent.
Allocated(op, at, n, tag, h) ==
    /\ nallocs < MaxAllocs
    /\ Called(op, at, n, tag, {}, h)
    /\ own' = [own EXCEPT ![h.ret] = 1]
    /\ toks' = toks \ {at}

SmallFields(h, n) == [h EXCEPT !.fld[h.ret] = [i \in 1..n |-> box_enum(7)]]

HeaderAlloc(a, n, tag) ==
    /\ a \in FreeAddr(m) \ toks
    /\ Allocated("block_alloc", reuse_null, n, tag,
                 SmallFields(block_alloc(Begin(m), a, n, tag), n))

HeaderAllocAny(a, n, tag) ==
    /\ a \in FreeAddr(m) \ toks
    /\ Allocated("block_alloc_any", reuse_null, n, tag,
                 SmallFields(block_alloc_any(Begin(m), a, n, tag), n))

HeaderAllocAt(at, a, n, tag) ==
    /\ \/ at \in toks /\ a = at
       \/ at = reuse_null /\ a \in FreeAddr(m) \ toks
    /\ Allocated("block_alloc_at", at, n, tag,
                 SmallFields(block_alloc_at(Begin(m), at, a, n, tag), n))

HeaderLargeAlloc(a, n, tag) ==
    /\ a \in FreeAddr(m) \ toks
    /\ Allocated("block_large_alloc", reuse_null, n, tag,
                 block_large_alloc(Begin(m), a, n, tag))

\* The storage of a constructor is released for reuse before the allocation.
HeaderRelease(b) ==
    /\ nallocs = 0
    /\ DropReuse(b)

NextHeader ==
    \/ \E a \in Addr, n \in SmallCounts, tag \in HTags : HeaderAlloc(a, n, tag)
    \/ \E a \in Addr, n \in SmallCounts, tag \in HTags : HeaderAllocAny(a, n, tag)
    \/ \E at \in Addr \cup {reuse_null}, a \in Addr, n \in SmallCounts, tag \in HTags :
          HeaderAllocAt(at, a, n, tag)
    \/ \E a \in Addr, n \in LargeCounts, tag \in HTags : HeaderLargeAlloc(a, n, tag)
    \/ \E b \in Addr : HeaderRelease(b)

SpecHeader == Init /\ [][NextHeader]_vars

----------------------------------------------------------------------------
(* References: the calling code owns the cell Root and c references to the *)
(* block Child; the cell holds a small integer or Child, and the field of  *)
(* Child holds a small integer or the cell itself (a cycle through the     *)
(* cell).  The calling code reads, writes and swaps cells, allocates a     *)
(* cell, and duplicates and drops what it owns.                            *)

InitRef ==
    /\ \E v0 \in {box_enum(7), box_ptr(Child)}, g \in {box_enum(7), box_ptr(Root)},
          c \in 0..1 :
          /\ v0 = box_ptr(Child) \/ c = 1
          /\ m = [EmptyHeap EXCEPT
                     !.mal = {Root, Child},
                     !.hdr[Root] = [HEADER(1, TAG_REF) EXCEPT
                         !.refcount = IF g = box_ptr(Root) THEN 1 ELSE 0],
                     !.fld[Root] = <<v0>>,
                     !.hdr[Child] = [HEADER(1, 500) EXCEPT
                         !.refcount = c - (IF v0 = box_ptr(Child) THEN 0 ELSE 1)],
                     !.fld[Child] = <<g>>]
          /\ own = [a \in Addr |-> IF a = Root THEN 1 ELSE IF a = Child THEN c ELSE 0]
    /\ pre = m
    /\ call = NoCall
    /\ pcall = NoPCall
    /\ toks = {}
    /\ budget = MaxOps
    /\ nallocs = 0
    /\ life = NoLife
    /\ thr = Idle
    /\ shared = NoScenario
    /\ ctx = NoContext

RefValues == {box_enum(7)} \cup {box_ptr(b) : b \in Addr}

IsRef(r) == r \in Owned /\ block_tag(m, r) = TAG_REF

\* The caller gives `value` away; it keeps a reference to the cell r it
\* operates on (the operations on cells do not consume the cell).
CanGive(value, r) ==
    is_ptr(value) =>
        /\ unbox_ptr(value) \in Owned
        /\ value = box_ptr(r) => own[r] >= 2

Given(o, value) == [c \in Addr |-> IF value = box_ptr(c) THEN o[c] - 1 ELSE o[c]]
Taken(o, value) == [c \in Addr |-> IF value = box_ptr(c) THEN o[c] + 1 ELSE o[c]]

RefAlloc(a, value) ==
    /\ a \in FreeAddr(m) \ toks
    /\ nallocs < MaxAllocs
    /\ CanGive(value, reuse_null)
    /\ Called("ref_alloc", a, value, TAG_REF, {}, ref_alloc(Begin(m), a, value))
    /\ own' = [Given(own, value) EXCEPT ![a] = 1]
    /\ UNCHANGED toks

RefGet(r) ==
    /\ IsRef(r)
    /\ Called("ref_get", r, 0, 0, {}, ref_get(Begin(m), r))
    /\ own' = Taken(own, block_field(m, r, 0))
    /\ UNCHANGED toks

RefSet(r, value) ==
    /\ IsRef(r)
    /\ CanGive(value, r)
    /\ Called("ref_set", r, value, 0, {}, ref_set(Begin(m), r, value))
    /\ own' = Given(own, value)
    /\ UNCHANGED toks

RefSwap(r, value) ==
    /\ IsRef(r)
    /\ CanGive(value, r)
    /\ Called("ref_swap", r, value, 0, {}, ref_swap(Begin(m), r, value))
    /\ own' = Taken(Given(own, value), block_field(m, r, 0))
    /\ UNCHANGED toks

NextRef ==
    \/ \E a \in Addr, value \in RefValues : RefAlloc(a, value)
    \/ \E r \in Addr : RefGet(r)
    \/ \E r \in Addr, value \in RefValues : RefSet(r, value)
    \/ \E r \in Addr, value \in RefValues : RefSwap(r, value)
    \/ \E b \in Addr : Dup(b)
    \/ \E b \in Addr : Drop(b)

SpecRef == InitRef /\ [][NextRef]_vars

----------------------------------------------------------------------------
(* Plain counts: one thread and one block that is not thread-shared.  The  *)
(* block was allocated (count 0) and duplicated k times on the fast path,  *)
(* so its count is k; the calling code holds one or two of the references  *)
(* and goes on duplicating and dropping on the fast paths.                 *)

PlainCounts == (0..3) \cup {INT32_MAX - i : i \in 0..3}

InitPlain ==
    /\ \E k \in PlainCounts, o \in 1..2 :
          /\ o - 1 <= k
          /\ m = [EmptyHeap EXCEPT
                     !.mal = {Root},
                     !.hdr[Root] = [HEADER(0, TAG_MIN) EXCEPT !.refcount = k]]
          /\ own = [a \in Addr |-> IF a = Root THEN o ELSE 0]
    /\ pre = m
    /\ call = NoCall
    /\ pcall = NoPCall
    /\ toks = {}
    /\ budget = MaxCalls
    /\ nallocs = 0
    /\ life = NoLife
    /\ thr = Idle
    /\ shared = NoScenario
    /\ ctx = NoContext

\* dup_block where it takes the fast path, (int32_t)rc >= 0.
PlainDup(b) ==
    /\ block_refcount(m, b) >= 0
    /\ Dup(b)

\* drop_block where it takes the fast path, (int32_t)(rc > 0).
PlainDrop(b) ==
    /\ u32_gt(block_refcount(m, b), 0)
    /\ Drop(b)

NextPlain ==
    \/ \E b \in Addr : PlainDup(b)
    \/ \E b \in Addr : PlainDrop(b)

SpecPlain == InitPlain /\ [][NextPlain]_vars

----------------------------------------------------------------------------
(* Reuse tokens: the calling code drops what it owns for reuse, as blocks  *)
(* and as datatype values, and spends each token it gets once, on          *)
(* block_alloc_at or on drop_reuse_t.                                      *)

NextToken ==
    \/ \E b \in Addr : Dup(b)
    \/ \E b \in Addr : Drop(b)
    \/ \E b \in Addr : DropReuse(b)
    \/ \E b \in Addr : DropReuseN(b)
    \/ \E d \in DWords, n \in 0..MaxFields : DropReuseDatatype(d, n)
    \/ \E r \in Addr : DropReuseT(r)
    \/ \E at \in Addr \cup {reuse_null}, a \in Addr, n \in 0..MaxFields, tag \in Tags :
          AllocAt(at, a, n, tag)

SpecToken == Init /\ [][NextToken]_vars

----------------------------------------------------------------------------
(* A static block: vector_empty, defined with HEADER_STATIC.  The calling  *)
(* code has duplicated it until its count is k and holds o of the          *)
(* references it got; it drops only references it holds, so the drops      *)
(* never exceed the dups.                                                  *)

StaticCounts ==
    {RC_STATIC, RC_STATIC + 1, RC_STATIC + 2, INT32_MAX - 1, INT32_MAX,
     RC_SHARED, RC_SHARED + 1, RC_SHARED + 2, RC_STICKY, RC_STICKY + 1}

InitStatic ==
    /\ \E k \in StaticCounts, o \in 0..2 :
          /\ k \in RC_STATIC..(RC_STATIC + 2) => o = k - RC_STATIC
          /\ m = [EmptyHeap EXCEPT
                     !.mal = {vector_empty},
                     !.hdr[vector_empty] =
                         [HEADER_STATIC(SCAN_FSIZE_MAX, TAG_VECTOR) EXCEPT !.refcount = k],
                     !.fld[vector_empty] = <<box_enum(1)>>]
          /\ own = [a \in Addr |-> IF a = vector_empty THEN o ELSE 0]
    /\ pre = m
    /\ call = NoCall
    /\ pcall = NoPCall
    /\ toks = {}
    /\ budget = MaxCalls
    /\ nallocs = 0
    /\ life = NoLife
    /\ thr = Idle
    /\ shared = NoScenario
    /\ ctx = NoContext

\* dup_block on the static block itself: the caller needs no reference of
\* its own to duplicate it.
DupStatic ==
    /\ IsLive(m, vector_empty)
    /\ Called("dup_block", vector_empty, 0, 0, {}, dup_block(Begin(m), vector_empty))
    /\ own' = [own EXCEPT ![vector_empty] = @ + 1]
    /\ UNCHANGED toks

NextStatic ==
    \/ DupStatic
    \/ \E b \in Addr : Drop(b)
    \/ \E b \in Addr : DropReuse(b)
    \/ \E b \in Addr : DropReuseN(b)
    \/ \E b \in Addr : DropReuseX(b)

SpecStatic == InitStatic /\ [][NextStatic]_vars

----------------------------------------------------------------------------
(* Graphs: acyclic graphs of blocks that are not thread-shared.  The two   *)
(* fields of Root hold small integers or point to Child or Leaf, the two   *)
(* fields of Child hold small integers or point to Leaf, and Leaf has no   *)
(* field.  The calling code owns Root and may own Child and Leaf; a block  *)
(* nobody owns is not there.  The count of a block is the number of its    *)
(* owners less one; a Child the calling code owns may have more owners,    *)
(* which do nothing here.  The calling code drops what it owns.            *)

Leaf == 24

GraphValues(targets) == {box_enum(7)} \cup {box_ptr(c) : c \in targets}

\* The counts of a block with owners outside the graph.
ManyOwners == {INT32_MAX, RC_SHARED, RC_SHARED + 1, RC_STICKY + 1}

InitGraph ==
    /\ \E rf \in [1..2 -> GraphValues({Child, Leaf})],
          cf \in [1..2 -> GraphValues({Leaf})],
          oc \in 0..1, ol \in 0..1, hc \in {0} \cup ManyOwners :
          LET nc    == oc + Pointers(rf, Child)
              nl    == ol + Pointers(rf, Leaf) + (IF nc > 0 THEN Pointers(cf, Leaf) ELSE 0)
          IN  /\ nc = 0 => cf = [i \in 1..2 |-> box_enum(7)]
              /\ hc # 0 => oc = 1
              /\ m = [EmptyHeap EXCEPT
                         !.mal = {Root} \cup (IF nc > 0 THEN {Child} ELSE {})
                                        \cup (IF nl > 0 THEN {Leaf} ELSE {}),
                         !.hdr[Root] = HEADER(2, 500),
                         !.fld[Root] = rf,
                         !.hdr[Child] = [HEADER(2, 500) EXCEPT
                             !.refcount = IF hc # 0 THEN hc
                                          ELSE IF nc > 0 THEN nc - 1 ELSE 0],
                         !.fld[Child] = IF nc > 0 THEN cf ELSE <<>>,
                         !.hdr[Leaf] = [HEADER(0, TAG_MIN) EXCEPT
                             !.refcount = IF nl > 0 THEN nl - 1 ELSE 0]]
              /\ own = [a \in Addr |-> IF a = Root THEN 1
                                       ELSE IF a = Child THEN oc
                                       ELSE IF a = Leaf THEN ol ELSE 0]
    /\ pre = m
    /\ call = NoCall
    /\ pcall = NoPCall
    /\ toks = {}
    /\ budget = MaxDrops
    /\ nallocs = 0
    /\ life = NoLife
    /\ thr = Idle
    /\ shared = NoScenario
    /\ ctx = NoContext

NextGraph ==
    \/ \E b \in Addr : Drop(b)
    \/ \E b \in Addr : DropN(b)

SpecGraph == InitGraph /\ [][NextGraph]_vars

----------------------------------------------------------------------------
(* Owners: one thread and blocks that are not thread-shared.  The calling  *)
(* code holds own[b] references to each block; the block Root has been     *)
(* duplicated until its count is rc (its other owners do nothing here) and *)
(* the count of Child is the number of its owners less one.                *)

OwnCounts ==
    {0, 1, INT32_MAX - 1, INT32_MAX, RC_SHARED, RC_SHARED + 1, RC_STICKY, RC_STICKY + 1}

InitOwn ==
    /\ \E rc \in OwnCounts, o \in 1..2, f0 \in {box_enum(7), box_ptr(Child)}, c \in 0..1 :
          /\ rc = 0 => o = 1
          /\ m = InitHeap([rc |-> rc, ts |-> 0], f0, c)
          /\ own = [a \in Addr |-> IF a = Root THEN o ELSE IF a = Child THEN c ELSE 0]
    /\ pre = m
    /\ call = NoCall
    /\ pcall = NoPCall
    /\ toks = {}
    /\ budget = MaxOps
    /\ nallocs = 0
    /\ life = NoLife
    /\ thr = Idle
    /\ shared = NoScenario
    /\ ctx = NoContext

NextOwn ==
    \/ \E b \in Addr : Dup(b)
    \/ \E b \in Addr : Drop(b)
    \/ \E b \in Addr : Decref(b)
    \/ \E b \in Addr : DropN(b)
    \/ \E b \in Addr : DropReuse(b)
    \/ \E b \in Addr : DropReuseN(b)
    \/ \E b \in Addr : DropReuseX(b)
    \/ \E a \in Addr, n \in 0..MaxFields, tag \in Tags : Alloc(a, n, tag)

SpecOwn == InitOwn /\ [][NextOwn]_vars

----------------------------------------------------------------------------
(* The life of one block: the calling code, holding c references to the    *)
(* block Child, constructs one block and then only duplicates and drops.   *)

InitLife ==
    /\ \E c \in 1..2 :
          /\ m = [EmptyHeap EXCEPT !.mal = {Child},
                                   !.hdr[Child] = [HEADER(0, TAG_MIN) EXCEPT !.refcount = c - 1]]
          /\ own = [a \in Addr |-> IF a = Child THEN c ELSE 0]
    /\ pre = m
    /\ call = NoCall
    /\ pcall = NoPCall
    /\ toks = {}
    /\ budget = MaxLife
    /\ nallocs = 0
    /\ life = NoLife
    /\ thr = Idle
    /\ shared = NoScenario
    /\ ctx = NoContext

NextLife ==
    \/ \E a \in Addr, n \in 0..MaxFields, tag \in Tags : Alloc(a, n, tag)
    \/ \E b \in Addr : Dup(b)
    \/ \E b \in Addr : Drop(b)

SpecLife == InitLife /\ [][NextLife]_vars

----------------------------------------------------------------------------
(* Threads on one thread-shared block.  The block Root is marked           *)
(* thread-shared and its count carries the top bit: RC_SHARED + n for n    *)
(* owners.  A step of a thread is one access to the header: the read of    *)
(* header.refcount into rc, then the store or the out-of-line call (whose  *)
(* increment and decrement are atomic).                                    *)
(*   "pairs": every thread makes NPairs dup_block/drop_block pairs on a    *)
(*            block some other owner keeps (count 1);                      *)
(*   "last":  every thread owns one reference and drops it, by drop_block  *)
(*            or by drop_reuse_blockn.                                     *)

InitMT ==
    /\ \E kind \in {"pairs", "last"} :
          /\ shared = [kind |-> kind, b |-> Root,
                       rc0 |-> IF kind = "pairs" THEN RC_SHARED + 1
                               ELSE RC_SHARED + NThreads]
          /\ \E ops \in [1..NThreads -> IF kind = "pairs" THEN {"dup"} ELSE {"drop", "reuse"}] :
                thr = [t \in 1..NThreads |->
                          [pc   |-> ops[t],
                           rc   |-> 0,
                           left |-> IF kind = "pairs" THEN NPairs ELSE 1,
                           got  |-> reuse_null]]
    /\ m = InitHeap([rc |-> shared.rc0, ts |-> 1], box_enum(7), 0)
    /\ pre = m
    /\ call = NoCall
    /\ pcall = NoPCall
    /\ own = [a \in Addr |-> 0]
    /\ toks = {}
    /\ budget = 0
    /\ nallocs = 0
    /\ life = NoLife
    /\ ctx = NoContext

Step(t, pc, h) ==
    /\ thr' = [thr EXCEPT ![t].pc = pc]
    /\ m' = h
    /\ UNCHANGED <<pre, call, pcall, own, toks, budget, nallocs, life, shared, ctx>>

\* const uint32_t rc = b->header.refcount;
Read(t, to) ==
    /\ thr' = [thr EXCEPT ![t].pc = to, ![t].rc = m.hdr[shared.b].refcount]
    /\ UNCHANGED <<m, pre, call, pcall, own, toks, budget, nallocs, life, shared, ctx>>

DupRead(t) ==
    /\ thr[t].pc = "dup"
    /\ Read(t, "dup_rc")

DupStore(t) ==
    /\ thr[t].pc = "dup_rc"
    /\ Step(t, "drop", dup_block_rc(m, shared.b, thr[t].rc))

DropRead(t) ==
    /\ thr[t].pc = "drop"
    /\ Read(t, "drop_rc")

DropStore(t) ==
    /\ thr[t].pc = "drop_rc"
    /\ LET h == drop_block_rc(m, shared.b, thr[t].rc)
       IN  /\ thr' = [thr EXCEPT ![t].left = @ - 1,
                                 ![t].pc = IF thr[t].left > 1 THEN "dup" ELSE "done"]
           /\ m' = h
    /\ UNCHANGED <<pre, call, pcall, own, toks, budget, nallocs, life, shared, ctx>>

ReuseRead(t) ==
    /\ thr[t].pc = "reuse"
    /\ Read(t, "reuse_rc")

ReuseStore(t) ==
    /\ thr[t].pc = "reuse_rc"
    /\ LET h == drop_reuse_blockn_rc(m, shared.b, block_scan_fsize(m, shared.b), thr[t].rc)
       IN  /\ thr' = [thr EXCEPT ![t].left = @ - 1, ![t].pc = "done", ![t].got = h.ret]
           /\ m' = h
    /\ UNCHANGED <<pre, call, pcall, own, toks, budget, nallocs, life, shared, ctx>>

NextMT ==
    \/ \E t \in 1..NThreads : DupRead(t)
    \/ \E t \in 1..NThreads : DupStore(t)
    \/ \E t \in 1..NThreads : DropRead(t)
    \/ \E t \in 1..NThreads : DropStore(t)
    \/ \E t \in 1..NThreads : ReuseRead(t)
    \/ \E t \in 1..NThreads : ReuseStore(t)

SpecMT == InitMT /\ [][NextMT]_vars

----------------------------------------------------------------------------
(* Properties of the single-threaded machine *)

B == call.b
Plain(rc) == rc >= 1 /\ rc <= INT32_MAX
ReuseOps == {"drop_reuse_block", "drop_reuse_blockn", "drop_reuse_blockx"}
Range(s) == {s[i] : i \in DOMAIN s}
\* The entries of a log of <<block, field>> pairs that name block b.
Of(log, b) == SelectSeq(log, LAMBDA e : e[1] = b)
\* <<b,i>> for the fields i of 0..n-1 that satisfy keep, in ascending order.
RECURSIVE FieldsFrom(_, _, _, _)
FieldsFrom(b, i, n, keep) ==
    IF i >= n THEN <<>>
    ELSE (IF i \in keep THEN <<(<<b, i>>)>> ELSE <<>>) \o FieldsFrom(b, i + 1, n, keep)
\* The number of the drops logged that released a reference to block c.
Released(h, log, c) ==
    Cardinality({i \in DOMAIN log : block_field(h, log[i][1], log[i][2]) = box_ptr(c)})
PointersTo(h, b, c, idx) == Cardinality({i \in idx : block_field(h, b, i) = box_ptr(c)})

\* C1: dup_block(B) followed immediately by drop_block(B) leaves B's
\* refcount as it was before the pair, frees nothing and drops no field.
C1_DupThenDropIsNoOp ==
    (call.op = "drop_block" /\ pcall.op = "dup_block" /\ pcall.b = B)
        => /\ m.hdr[B].refcount = pcall.rc
           /\ m.frees = <<>>
           /\ m.drops = <<>>

\* C4: a call on a block whose refcount is sticky (above 0xC0000000) neither
\* decrements the count nor frees the block.
C4_StickyNeverDecremented ==
    \A b \in Addr :
        (call.op # "none" /\ IsLive(pre, b) /\ is_sticky(pre.hdr[b].refcount))
            => /\ ~u32_gt(pre.hdr[b].refcount, m.hdr[b].refcount)
               /\ IsLive(m, b)

\* C5: drop_block only decrements exactly when the count read as int32_t is
\* positive; for a count of zero or with the top bit set it hands the block
\* to block_check_free(b, rc, ctx) and touches nothing itself.
C5_DropFastPathIffPositive ==
    call.op = "drop_block"
        => LET rc == pre.hdr[B].refcount
           IN  IF Plain(rc)
               THEN m = set_refcount(Begin(pre), B, rc - 1)
               ELSE /\ m.slow # <<>>
                    /\ Head(m.slow) = <<"block_check_free", B, rc>>
                    /\ m = block_check_free(Begin(pre), B, rc)

\* C6: on a unique block B (refcount 0) with scan count N, drop_reuse_block
\* and drop_reuse_blockn return B, drop the fields 0..N-1 of B once each and
\* no other field of B, do not free B and leave its refcount at 0.
C6_UniqueReuseDropsFieldsOnce ==
    (call.op \in {"drop_reuse_block", "drop_reuse_blockn"} /\ pre.hdr[B].refcount = 0)
        => LET N == block_scan_fsize(pre, B)
           IN  /\ m.ret = B
               /\ Of(m.drops, B) = FieldsFrom(B, 0, N, 0..(N - 1))
               /\ B \notin Range(m.frees)
               /\ IsLive(m, B)
               /\ m.hdr[B].refcount = 0

C6_Witness ==
    /\ call.op = "drop_reuse_block"
    /\ pre.hdr[B].refcount = 0
    /\ block_scan_fsize(pre, B) = 2
    /\ m.ret = B
    /\ m.frees = <<Child>>

\* C7: on a shared block B (refcount 1..0x7FFFFFFF) the three reuse variants
\* return reuse_null, decrement the refcount by one, leave tag, scan count
\* and thread_shared alone, drop no field and free nothing.
C7_SharedReuseOnlyDecrements ==
    (call.op \in ReuseOps /\ Plain(pre.hdr[B].refcount))
        => /\ m.ret = reuse_null
           /\ m.hdr[B] = [pre.hdr[B] EXCEPT !.refcount = @ - 1]
           /\ m.drops = <<>>
           /\ m.frees = <<>>
           /\ \A b \in Addr \ {B} : m.hdr[b] = pre.hdr[b]

C7_Witness ==
    /\ call.op = "drop_reuse_blockx"
    /\ pre.hdr[B].refcount = INT32_MAX
    /\ m.hdr[B].refcount = INT32_MAX - 1
    /\ m.ret = reuse_null

\* C9: block_alloc_at on a unique reuse token allocates nothing and returns
\* the token's storage with the header (n, tag, refcount 0, not
\* thread-shared); on reuse_null it allocates once and returns a block that
\* was not in use, with that header.
C9_AllocAtReusesOrAllocates ==
    call.op = "block_alloc_at"
        => /\ m.hdr[m.ret] = HEADER(call.n, call.tag)
           /\ IF B # reuse_null
              THEN m.mallocs = 0 /\ m.ret = B
              ELSE m.mallocs = 1 /\ m.ret \in Addr /\ ~IsLive(pre, m.ret)
           /\ IsLive(m, m.ret)
           /\ m.frees = <<>>

C9_Witness ==
    /\ call.op = "block_alloc_at"
    /\ B # reuse_null
    /\ block_is_unique(pre, B)
    /\ pre.hdr[B].tag # call.tag
    /\ pre.hdr[B].scan_fsize # call.n
    /\ m.ret = B

\* C10: drop_match on a unique constructor drops exactly its unused fields,
\* once each, duplicates none and frees the constructor once; on a shared
\* constructor it duplicates exactly the used fields, once each, drops none
\* and decrements the constructor's refcount without freeing it.  Either
\* way one reference to each used field's block is left for the caller.
C10_DropMatch ==
    call.op = "drop_match"
        => LET N      == block_scan_fsize(pre, B)
               unused == (0..(N - 1)) \ call.used
               kids   == {c \in Addr \ {B} :
                             /\ PointersTo(pre, B, c, call.used) > 0
                             /\ Plain(pre.hdr[c].refcount)
                             /\ pre.hdr[c].refcount < INT32_MAX}
           IN  /\ pre.hdr[B].refcount = 0
                    => /\ Of(m.drops, B) = FieldsFrom(B, 0, N, unused)
                       /\ m.dups = <<>>
                       /\ Cardinality({i \in DOMAIN m.frees : m.frees[i] = B}) = 1
                       /\ \A c \in kids :
                             /\ IsLive(m, c)
                             /\ m.hdr[c].refcount =
                                   pre.hdr[c].refcount - Released(pre, m.drops, c)
               /\ Plain(pre.hdr[B].refcount)
                    => /\ m.dups = FieldsFrom(B, 0, N, call.used)
                       /\ m.drops = <<>>
                       /\ m.frees = <<>>
                       /\ m.hdr[B] = [pre.hdr[B] EXCEPT !.refcount = @ - 1]
                       /\ \A c \in kids :
                             m.hdr[c].refcount =
                                 pre.hdr[c].refcount + PointersTo(pre, B, c, call.used)

C10_Witness ==
    /\ call.op = "drop_match"
    /\ pre.hdr[B].refcount = 0
    /\ call.used = {1}
    /\ m.drops = <<(<<Root, 0>>)>>
    /\ m.frees = <<Root>>
    /\ m.hdr[Child].refcount = 0
    /\ own[Child] = 1

\* C11: reuse_match on a unique constructor drops exactly its unused fields,
\* once each, drops no used field, frees nothing of the constructor and
\* hands its storage out as the reuse token; on a shared constructor it
\* duplicates exactly the used fields, decrements the constructor's count
\* once and hands out reuse_null.
C11_ReuseMatch ==
    call.op = "reuse_match"
        => LET N      == block_scan_fsize(pre, B)
               unused == (0..(N - 1)) \ call.used
           IN  /\ pre.hdr[B].refcount = 0
                    => /\ m.drops = FieldsFrom(B, 0, N, unused)
                       /\ m.dups = <<>>
                       /\ m.ret = B
                       /\ IsLive(m, B)
               /\ Plain(pre.hdr[B].refcount)
                    => /\ m.dups = FieldsFrom(B, 0, N, call.used)
                       /\ m.drops = <<>>
                       /\ m.frees = <<>>
                       /\ m.hdr[B] = [pre.hdr[B] EXCEPT !.refcount = @ - 1]
                       /\ m.ret = reuse_null

\* The heap proper: headers, fields and what is allocated or freed.
SameHeap(h, g) ==
    /\ h.hdr = g.hdr
    /\ h.fld = g.fld
    /\ h.mal = g.mal
    /\ h.nfree = g.nfree

\* C12: for tags t, t2 of the constructor range, datatype_from_tag(t) is
\* the singleton 4t+1 (low bit set), and datatype_has_tag of it and t2 is
\* true exactly when t2 = t.
C12_SingletonHasItsTag ==
    (call.op = "datatype_has_tag" /\ call.n # 0)
        => /\ call.b = 4 * call.n + 1
           /\ datatype_is_singleton(call.b)
           /\ ~datatype_is_ptr(call.b)
           /\ m.ret = (IF call.tag = call.n THEN 1 ELSE 0)

\* has_tag(from_tag(TAG_MAX), TAG_MAX - 1) is false.
C12_Witness ==
    /\ call.op = "datatype_has_tag"
    /\ call.n = TAG_MAX
    /\ call.tag = TAG_MAX - 1
    /\ call.b = 260001
    /\ m.ret = 0

DatatypeOps ==
    {"dup_datatype", "drop_datatype", "datatype_decref", "datatype_free",
     "drop_reuse_datatype"}

\* C13: on a singleton the datatype operations leave the heap as it was,
\* free and drop nothing, and drop_reuse_datatype returns reuse_null; on a
\* pointer each has the effect of the block operation it stands for.
C13_DatatypeForwards ==
    call.op \in DatatypeOps
        => LET h == Begin(pre)
           IN  IF datatype_is_singleton(call.b)
               THEN /\ SameHeap(m, pre)
                    /\ m.frees = <<>> /\ m.drops = <<>> /\ m.slow = <<>>
                    /\ m.mallocs = 0
                    /\ call.op = "drop_reuse_datatype" => m.ret = reuse_null
               ELSE /\ call.op = "dup_datatype" => m = dup_block(h, B)
                    /\ call.op = "drop_datatype" => m = drop_block(h, B)
                    /\ call.op = "datatype_decref" => m = block_decref(h, B)
                    /\ call.op = "datatype_free" => m = runtime_free(h, B)
                    /\ call.op = "drop_reuse_datatype"
                          => m = drop_reuse_blockn(h, B, call.n)

\* A pointer datatype dropped by its last owner: the block and its Child go.
C13_Witness ==
    /\ call.op = "drop_datatype"
    /\ datatype_is_ptr(call.b)
    /\ pre.hdr[B].refcount = 0
    /\ m.frees = <<Child, Root>>

\* C14: vector_alloc(0, def, ctx) allocates nothing and returns
\* vector_empty itself, whose refcount has gone up by one; nothing else in
\* the heap changes.
C14_EmptyVectorIsShared ==
    (call.op = "vector_alloc" /\ call.n = 0)
        => /\ m.mallocs = 0
           /\ m.ret = vector_empty
           /\ m.hdr = [pre.hdr EXCEPT ![vector_empty].refcount = @ + 1]
           /\ m.fld = pre.fld
           /\ m.mal = pre.mal
           /\ m.nfree = pre.nfree
           /\ m.frees = <<>> /\ m.drops = <<>>

\* Asked a second time, with a pointer as def: the same block again.
C14_Witness ==
    /\ call.op = "vector_alloc"
    /\ call.n = 0
    /\ call.tag = box_ptr(Child)
    /\ m.ret = vector_empty
    /\ pre.hdr[vector_empty].refcount = RC_STATIC + 1
    /\ m.hdr[vector_empty].refcount = RC_STATIC + 2

\* C15: a marker_unique call returns the counter it found plus one, a
\* value of 1..INT32_MAX; the increment does not overflow; the call that
\* returns INT32_MAX stores 1; between calls the stored counter is at least
\* 0 and below INT32_MAX.
C15_MarkerInRange ==
    /\ 0 <= ctx.marker_unique /\ ctx.marker_unique < INT32_MAX
    /\ call.op = "marker_unique"
          => /\ call.n < INT32_MAX
             /\ m.ret = call.n + 1
             /\ m.ret >= 1 /\ m.ret <= INT32_MAX
             /\ ctx.marker_unique = (IF m.ret = INT32_MAX THEN 1 ELSE m.ret)

\* The call that reaches INT32_MAX, and a call after it.
C15_Witness ==
    /\ call.op = "marker_unique"
    /\ Len(ctx.markers) >= 2
    /\ ctx.markers[Len(ctx.markers) - 1] = INT32_MAX
    /\ m.ret = 2

\* C16: a gen_unique call returns the unique counter it found and leaves
\* the counter one larger, so the values returned so far go up by one from
\* each call to the next and none is returned twice.
C16_UniqueAdvances ==
    LET us == ctx.uniques
    IN  /\ call.op = "gen_unique"
              => m.ret = call.n /\ ctx.unique = call.n + 1
        /\ \A i \in 1..(Len(us) - 1) : us[i + 1] = us[i] + 1
        /\ \A i, j \in DOMAIN us : i # j => us[i] # us[j]
        /\ us # <<>> => ctx.unique = us[Len(us)] + 1

C16_Witness ==
    /\ call.op = "gen_unique"
    /\ ctx.uniques = <<5, 6, 7>>
    /\ ctx.unique = 8

\* C17: a block from block_alloc, block_alloc_any or block_alloc_at, made
\* with a scan count n below 0xFF and tag t, reads back tag t and scan
\* count n, is unique (refcount 0) and not thread-shared, and its inline
\* count is not 0xFF; a block from block_large_alloc has the inline count
\* 0xFF, tag t, refcount 0, and its scan count reads back as n from the
\* boxed first field.
C17_HeaderRoundTrip ==
    LET b == m.ret
    IN  /\ (call.op \in {"block_alloc", "block_alloc_any", "block_alloc_at"}
               /\ call.n < SCAN_FSIZE_MAX)
              => /\ block_tag(m, b) = call.tag
                 /\ block_scan_fsize(m, b) = call.n
                 /\ m.hdr[b].scan_fsize = call.n
                 /\ m.hdr[b].scan_fsize # SCAN_FSIZE_MAX
                 /\ block_is_unique(m, b)
                 /\ block_refcount(m, b) = 0
                 /\ m.hdr[b].thread_shared = 0
        /\ call.op = "block_large_alloc"
              => /\ m.hdr[b].scan_fsize = SCAN_FSIZE_MAX
                 /\ block_tag(m, b) = call.tag
                 /\ block_is_unique(m, b)
                 /\ block_refcount(m, b) = 0
                 /\ m.hdr[b].thread_shared = 0
                 /\ block_field(m, b, 0) = box_enum(call.n)
                 /\ block_scan_fsize(m, b) = call.n

\* A large block of exactly 0xFF scanned fields.
C17_Witness ==
    /\ call.op = "block_large_alloc"
    /\ call.n = SCAN_FSIZE_MAX
    /\ call.tag = TAG_VECTOR
    /\ IsLive(m, m.ret)
    /\ block_scan_fsize(m, m.ret) = SCAN_FSIZE_MAX

\* What ref_set(r, v) does apart from r's own count: the value the cell held
\* is dropped exactly once (the heap is the one a single drop_box_t of it
\* leaves, logged once and first), the store changes no header (so not v's
\* refcount either), and afterwards the cell holds v.
RefSetEffect ==
    LET r       == call.b
        v       == call.n
        old     == block_field(pre, r, 0)
        dropped == drop_box_t(Begin(pre), old)
    IN  /\ Of(m.drops, r) = <<(<<r, 0>>)>>
        /\ m.drops[1] = <<r, 0>>
        /\ Tail(m.drops) = dropped.drops
        /\ m.hdr = dropped.hdr
        /\ m.frees = dropped.frees
        /\ m.nfree = dropped.nfree
        /\ is_ptr(v) => block_refcount(m, unbox_ptr(v)) = block_refcount(dropped, unbox_ptr(v))
        /\ \A b \in Addr \ {r} : m.fld[b] = dropped.fld[b]
        /\ block_field(m, r, 0) = v
        /\ IsLive(m, r)

\* C18 (as stated): ref_set(r, v) drops the value previously stored in the
\* cell exactly once, stores v in the cell without changing v's refcount,
\* leaves r's own refcount unchanged, and afterwards the cell holds v.
C18_RefSetKeepsCount ==
    call.op = "ref_set"
        => /\ RefSetEffect
           /\ block_refcount(m, call.b) = block_refcount(pre, call.b)

\* C18 (amended): as stated, except that r's own refcount goes down by the
\* number of references to r that the drop of the old value released (the
\* old value was r itself, or a block freed by the drop that pointed to r);
\* it is unchanged when the old value did not reach r.
C18_RefSet ==
    call.op = "ref_set"
        => /\ RefSetEffect
           /\ block_refcount(m, call.b) =
                  block_refcount(pre, call.b) - Released(pre, m.drops, call.b)

\* ref_set on a cell whose old value is a unique block pointing back to the
\* cell: the block is freed and its reference to the cell released.
C18_Witness ==
    /\ call.op = "ref_set"
    /\ block_field(pre, call.b, 0) = box_ptr(Child)
    /\ m.frees = <<Child>>
    /\ Released(pre, m.drops, call.b) = 1
    /\ block_refcount(pre, call.b) = 1
    /\ block_refcount(m, call.b) = 0

\* C19: on a block whose refcount is not zero (plain positive, thread-shared
\* or sticky) block_decref and drop_block do the same: the same headers and
\* fields, the same frees and the same out-of-line calls.
C19_DecrefIsDrop ==
    /\ call.op = "block_decref"
          => /\ block_refcount(pre, B) # 0
             /\ m = drop_block(Begin(pre), B)
    /\ (call.op = "drop_block" /\ block_refcount(pre, B) # 0)
          => m = block_decref(Begin(pre), B)

\* block_decref on a thread-shared block with two owners.
C19_Witness ==
    /\ call.op = "block_decref"
    /\ pre.hdr[B].thread_shared = 1
    /\ block_refcount(pre, B) = RC_SHARED + 2
    /\ m = drop_block(Begin(pre), B)

\* C20: the sticky threshold is above the atomic-promotion threshold, and
\* the count of a block that is not thread-shared, reached from 0 by the
\* fast paths of dup_block and drop_block, stays below the atomic-promotion
\* threshold: its top bit is clear.
C20_PlainCountsBelowThreshold ==
    /\ u32_gt(RC_STICKY, RC_SHARED)
    /\ \A b \in Addr :
          (IsLive(m, b) /\ m.hdr[b].thread_shared = 0)
              => /\ block_refcount(m, b) # RC_SHARED
                 /\ ~u32_gt(block_refcount(m, b), RC_SHARED)

\* The fast path of dup_block on the count 0x7FFFFFFF stores 0x80000000.
C20_Witness ==
    /\ call.op = "dup_block"
    /\ block_refcount(pre, B) = INT32_MAX
    /\ m.slow = <<>>
    /\ block_refcount(m, B) = RC_SHARED

\* C21: for every block and every refcount (zero, plain positive,
\* thread-shared, sticky) drop_reuse_block(b) and
\* drop_reuse_blockn(b, block_scan_fsize(b)) return the same token and leave
\* the same heap: the same refcount, the same fields dropped, the same
\* out-of-line call.
C21_ReuseVariantsAgree ==
    /\ call.op = "drop_reuse_block"
          => m = drop_reuse_blockn(Begin(pre), B, block_scan_fsize(pre, B))
    /\ (call.op = "drop_reuse_blockn" /\ call.n = block_scan_fsize(pre, B))
          => m = drop_reuse_block(Begin(pre), B)

\* drop_reuse_block on a sticky count: a plain decrement, where
\* drop_reuse_blockn calls block_check_free and leaves the count alone.
C21_Witness ==
    /\ call.op = "drop_reuse_block"
    /\ block_refcount(pre, B) = RC_STICKY + 1
    /\ block_refcount(m, B) = RC_STICKY
    /\ m.slow = <<>>
    /\ block_refcount(drop_reuse_blockn(Begin(pre), B, block_scan_fsize(pre, B)), B)
           = RC_STICKY + 1

\* A block is held while it is allocated and is not a reuse token.
Held(h, tk, b) == IsLive(h, b) /\ b \notin tk

\* The owners of block b that the model sees: the references of the calling
\* code and the scanned fields of the blocks held that point to b.
Owners(h, o, tk, b) ==
    o[b] + Cardinality({e \in Addr \X (0..(MaxFields - 1)) :
                           /\ Held(h, tk, e[1])
                           /\ e[2] < block_scan_fsize(h, e[1])
                           /\ block_field(h, e[1], e[2]) = box_ptr(b)})

\* The uint32_t count rc after d increments (d > 0) or -d decrements.
RECURSIVE Shift(_, _)
Shift(rc, d) ==
    IF d = 0 THEN rc
    ELSE IF d > 0 THEN Shift(u32_inc(rc), d - 1)
    ELSE Shift(u32_dec(rc), d + 1)

\* One call keeps the count of block b in step with its owners: a block held
\* before and after has its count moved by the change in the number of its
\* owners; a block released by the call had as many owners as the call took
\* away, its count less those being the count "no owner", -1; a block
\* allocated by the call has count 0 and one owner.
OwnStep(b) ==
    LET was == Held(m, toks, b)
        is  == Held(m', toks', b)
        d   == Owners(m', own', toks', b) - Owners(m, own, toks, b)
    IN  /\ (was /\ is) => block_refcount(m', b) = Shift(block_refcount(m, b), d)
        /\ (was /\ ~is) => Shift(block_refcount(m, b), d) = -1
        /\ (~was /\ is) =>
              block_refcount(m', b) = 0 /\ Owners(m', own', toks', b) = 1

TokenOps == {"drop_reuse_block", "drop_reuse_blockn", "drop_reuse_datatype"}

\* C23: a token returned by drop_reuse_block, drop_reuse_blockn or
\* drop_reuse_datatype is unique when it is returned and for as long as it
\* is held, so the assertions of block_alloc_at and drop_reuse_t hold on it;
\* block_alloc_at reinitialises its storage without freeing it,
\* drop_reuse_t frees it once, a token spent is no token any more, and no
\* storage is freed twice.
C23_TokenProtocol ==
    /\ \A t \in toks : IsLive(m, t) /\ block_is_unique(m, t) /\ own[t] = 0
    /\ (call.op \in TokenOps /\ m.ret # reuse_null)
          => /\ m.ret = B
             /\ m.ret \in toks
             /\ block_is_unique(pre, B)
             /\ block_is_unique(m, B)
             /\ B \notin Range(m.frees)
    /\ (call.op = "block_alloc_at" /\ B # reuse_null)
          => /\ block_is_unique(pre, B)
             /\ m.ret = B
             /\ m.frees = <<>>
             /\ m.mallocs = 0
             /\ IsLive(m, B)
             /\ B \notin toks
    /\ (call.op = "drop_reuse_t" /\ B # reuse_null)
          => /\ block_is_unique(pre, B)
             /\ m.frees = <<B>>
             /\ ~IsLive(m, B)
             /\ B \notin toks
    /\ \A a \in Addr : m.nfree[a] <= 1

\* A token returned for a datatype value and freed by drop_reuse_t.
C23_Witness ==
    /\ call.op = "drop_reuse_t"
    /\ B = Child
    /\ block_is_unique(pre, B)
    /\ m.frees = <<B>>
    /\ m.nfree[B] = 1
    /\ IsLive(m, Root)

\* C24: for a length n >= 1 and every def, box_null included, vector_alloc
\* returns a new, unique large block of tag TAG_VECTOR whose scan count is
\* n+1 and whose vector_len is n, with the boxed count n+1 in the first
\* field and def in each of the n element fields.
C24_VectorInitialised ==
    (call.op = "vector_alloc" /\ call.n >= 1)
        => LET v == m.ret
           IN  /\ m.mallocs = 1
               /\ ~IsLive(pre, v)
               /\ IsLive(m, v)
               /\ block_is_unique(m, v)
               /\ block_tag(m, v) = TAG_VECTOR
               /\ m.hdr[v].scan_fsize = SCAN_FSIZE_MAX
               /\ block_scan_fsize(m, v) = call.n + 1
               /\ vector_len(m, v) = call.n
               /\ block_field(m, v, 0) = box_enum(call.n + 1)
               /\ \A i \in 1..call.n : block_field(m, v, i) = call.tag

\* vector_alloc(2, box_null) in memory that held a pointer to Child: the
\* two elements are that stale pointer.
C24_Witness ==
    /\ call.op = "vector_alloc"
    /\ call.n = 2
    /\ call.tag = box_null
    /\ block_scan_fsize(m, m.ret) = 3
    /\ block_field(m, m.ret, 1) = box_ptr(Child)
    /\ block_field(m, m.ret, 2) = box_ptr(Child)

PlainStatic(h, o, tk) ==
    /\ Held(h, tk, vector_empty)
    /\ block_refcount(h, vector_empty) >= 0
    /\ block_refcount(h, vector_empty) - RC_STATIC >= o[vector_empty]

C26_MarkersDoNotRepeat ==
    LET ms == ctx.markers
    IN  /\ \A i \in 1..(Len(ms) - 1) :
              ms[i + 1] = (IF ms[i] = INT32_MAX THEN 2 ELSE ms[i] + 1)
        /\ \A i \in 1..Len(ms) : ms[i] >= 1 /\ (ms[i] = 1 => i = 1)
        /\ \A i, j \in 1..Len(ms) : i < j => ms[i] # ms[j]
        /\ (call.op = "marker_unique" /\ m.ret = 1) => call.n = 0

\* A window across the wrap.
C26_Witness ==
    ctx.markers = <<INT32_MAX - 1, INT32_MAX, 2, 3>>

\* The scanned fields of the blocks of S (allocated ones) that point to c.
FieldsTo(h, S, c) ==
    {e \in S \X (0..(MaxFields - 1)) :
        /\ IsLive(h, e[1])
        /\ e[2] < block_scan_fsize(h, e[1])
        /\ block_field(h, e[1], e[2]) = box_ptr(c)}

\* Every pointer in a scanned field points to an allocated block.
WellFormed(h) ==
    \A c \in Addr : FieldsTo(h, Addr, c) # {} => IsLive(h, c)

\* The blocks that go with `root` when its last owner drops it: root, and
\* every block whose owners (its count plus one) are all fields of blocks
\* that go: the calling code does not own it and it has no owner elsewhere.
RECURSIVE Doomed(_, _, _, _)
Doomed(h, o, D, k) ==
    IF k = 0 THEN D
    ELSE Doomed(h, o,
                D \cup {c \in Addr : /\ IsLive(h, c)
                                     /\ o[c] = 0
                                     /\ FieldsTo(h, D, c) # {}
                                     /\ FieldsTo(h, Addr \ D, c) = {}
                                     /\ block_refcount(h, c) =
                                            Cardinality(FieldsTo(h, D, c)) - 1},
                k - 1)

\* C27: when the last owner of a block drops it (drop_block or drop_blockn,
\* count 0) in an acyclic graph of blocks that are not thread-shared, the
\* drop ends after dropping each field of each block that goes once; every
\* block reachable only through the dropped one is freed exactly once, and
\* every other block stays allocated, its fields as they were and its count
\* lower by the number of references to it that were released.
C27_GraphDrop ==
    (/\ call.op \in {"drop_block", "drop_blockn"}
     /\ IsLive(pre, B)
     /\ block_refcount(pre, B) = 0
     /\ WellFormed(pre))
        => LET D == Doomed(pre, own, {B}, NBlocks)
           IN  /\ Range(m.frees) = D
               /\ Len(m.frees) = Cardinality(D)
               /\ \A c \in D : ~IsLive(m, c) /\ m.nfree[c] = 1
               /\ Range(m.drops) =
                      {e \in D \X (0..(MaxFields - 1)) : e[2] < block_scan_fsize(pre, e[1])}
               /\ Len(m.drops) = Cardinality(Range(m.drops))
               /\ \A c \in Addr \ D :
                      IsLive(pre, c)
                          => /\ IsLive(m, c)
                             /\ m.fld[c] = pre.fld[c]
                             /\ block_refcount(m, c) =
                                    Shift(block_refcount(pre, c),
                                          0 - Cardinality(FieldsTo(pre, D, c)))
               /\ WellFormed(m)

\* Root points to Child and Leaf, Child to Leaf, and the calling code owns
\* Leaf as well: the drop of Root frees Root and Child and leaves Leaf, its
\* count down from 2 to 0.
C27_Witness ==
    /\ call.op = "drop_blockn"
    /\ B = Root
    /\ m.frees = <<Child, Root>>
    /\ own[Leaf] = 1
    /\ block_refcount(pre, Leaf) = 2
    /\ block_refcount(m, Leaf) = 0
    /\ IsLive(m, Leaf)

----------------------------------------------------------------------------
(* Properties of the life of a block *)

\* C8: a block from block_alloc that has since seen k dup_block and d
\* drop_block calls is live with refcount k - d, and none of these calls
\* freed anything or dropped a field, as long as d <= k; the drop_block
\* call that makes d = k + 1 frees the block once and drops each of its N
\* scanned fields once: a block loses one reference for each dropped field
\* that points to it (it is freed when that was its last, and its own fields
\* are then dropped in turn), a small integer needs no release.
C8_LifeOfABlock ==
    life.b # reuse_null
        => LET b == life.b
               N == block_scan_fsize(pre, b)
           IN  /\ life.drops <= life.dups + 1
               /\ life.drops <= life.dups
                    => /\ IsLive(m, b)
                       /\ m.hdr[b].refcount = life.dups - life.drops
                       /\ (B = b /\ call.op \in {"dup_block", "drop_block"})
                             => m.drops = <<>> /\ m.frees = <<>>
               /\ life.drops = life.dups + 1
                    => /\ m.nfree[b] = 1
                       /\ B = b
                             => /\ call.op = "drop_block"
                                /\ pre.hdr[b].refcount = 0
                                /\ Cardinality({i \in DOMAIN m.frees : m.frees[i] = b}) = 1
                                /\ Of(m.drops, b) = FieldsFrom(b, 0, N, 0..(N - 1))
                                /\ \A c \in Addr \ {b} :
                                      LET r == Released(pre, m.drops, c)
                                      IN  IF r = 0
                                          THEN m.hdr[c] = pre.hdr[c] /\ m.nfree[c] = pre.nfree[c]
                                          ELSE IF pre.hdr[c].refcount >= r
                                          THEN /\ m.hdr[c].refcount = pre.hdr[c].refcount - r
                                               /\ IsLive(m, c)
                                          ELSE m.nfree[c] = 1

\* Two dups, then three drops of a block with the fields [box(7), Child]:
\* the third drop freed the block and the Child it was the last owner of.
C8_Witness ==
    /\ life.b # reuse_null
    /\ life.dups = 2
    /\ life.drops = 3
    /\ pre.fld[life.b] = <<box_enum(7), box_ptr(Child)>>
    /\ m.frees = <<Child, life.b>>

----------------------------------------------------------------------------
(* Properties of the threads on a thread-shared block *)

AllDone == \A t \in 1..NThreads : thr[t].pc = "done"
\* The times the shared block was released: freed, or handed out for reuse.
Releases ==
    m.nfree[shared.b] + Cardinality({t \in 1..NThreads : thr[t].got = shared.b})
\* The threads that found the block uniquely owned: they read a count of 0.
SawUnique == {t \in 1..NThreads : thr[t].pc \in {"drop_rc", "reuse_rc"} /\ thr[t].rc = 0}

\* C2: after all threads have made their dup_block/drop_block pairs on the
\* thread-shared block of count 1, its refcount is what it was and the block
\* has not been freed.
C2_PairsKeepTheCount ==
    (shared.kind = "pairs" /\ AllDone)
        => /\ m.hdr[shared.b].refcount = shared.rc0
           /\ IsLive(m, shared.b)

\* C3: when each thread drops the one reference it owns, the block is
\* released (freed or handed out for reuse) at most once, only after every
\* thread has dropped, exactly once when all have, and at most one thread
\* finds it uniquely owned.
C3_LastDropReleasesOnce ==
    shared.kind = "last"
        => /\ Releases <= 1
           /\ Releases = 1 => AllDone
           /\ AllDone => Releases = 1
           /\ Cardinality(SawUnique) <= 1

====
